---- MODULE Spec2Model ----
(***************************************************************************)
(* Model of debug_mcp_servers.py: main() probes every configured MCP       *)
(* server in turn with test_mcp_server(), which spawns the server as a     *)
(* child process, performs the initialize / tools/list / resources/list    *)
(* handshake through send_mcp_request() and tears the child down.          *)
(*                                                                         *)
(* The child process is the environment: it may exit at any moment while   *)
(* it is running, and write lines to its stdout or close its pipes as long *)
(* as the tool may still use them.  The tool's own prints are not modelled *)
(* (they are assumed not to raise).                                        *)
(***************************************************************************)
EXTENDS Integers, Sequences, FiniteSets, TLC

\* ---- bounds of the model ------------------------------------------------
MaxServers == 2      \* entries of "mcpServers"
MaxLines == 2        \* lines one child writes to its stdout

VARIABLES
    platform,    \* sys.platform: "posix" or "win32"
    nservers,    \* len(servers), the entries of config["mcpServers"]
    config,      \* server_config of the entry main's for loop is at
    results,     \* main's results dict, in insertion order: "True" | "False" per probed entry
    exitStatus,  \* exit status of the tool, -1 while it runs
    pc,          \* statement the tool is at
    child,       \* per entry, the child spawned by Popen: "none" | "running" | "exited" | "reaped"
    returncode,  \* process.returncode as set by the poll of line 111, -1 if unset
    pipesOpen,   \* the current child still holds its ends of stdin/stdout
    sent,        \* messages written to the current child's stdin, in order
    outbuf,      \* lines in the current child's stdout pipe, not yet read
    nlines,      \* lines the current child has written so far
    response,    \* value returned by the latest send_mcp_request
    readLog,     \* per send_mcp_request call of this probe: what it saw and returned
    teardowns,   \* times the clean-up block was entered in this probe
    termReq,     \* SIGTERM was delivered to the current child
    killed,      \* SIGKILL was delivered to the current child
    aliveAtCheck,\* outcome of process.poll() after the grace period: "unknown" | "yes" | "no"
    spawnRes,    \* outcome of subprocess.Popen: "none" | "ok" | "FileNotFoundError" | "OSError"
    helperRuns,  \* "docker --version" processes run for this entry
    raised,      \* exception that escaped test_mcp_server, "none" if none
    cleanupError \* exception caught by the handler of lines 181-182, "none" if none

vars == <<platform, nservers, config, results, exitStatus, pc, child, returncode,
          pipesOpen, sent, outbuf, nlines, response, readLog, teardowns,
          termReq, killed, aliveAtCheck, spawnRes, helperRuns, raised,
          cleanupError>>

\* variables of the child process of the current entry
childVars == <<child, returncode, pipesOpen, outbuf, nlines>>
\* locals of main
mainVars == <<platform, nservers, config, results, exitStatus>>
\* history of the current probe
probeVars == <<sent, response, readLog, teardowns, termReq, killed,
               aliveAtCheck, spawnRes, helperRuns, raised, cleanupError>>

\* ---- configurations -----------------------------------------------------
\* type: config.get("type"); command: config.get("command") ("none" = key
\* absent); args: "strs" = a list of strings, "bad" = a list holding a
\* non-string.
Configs ==
    { [type |-> "stdio", command |-> "srv",    args |-> "strs"],
      [type |-> "stdio", command |-> "docker", args |-> "strs"],
      [type |-> "stdio", command |-> "srv",    args |-> "bad"],
      [type |-> "sse",   command |-> "docker", args |-> "strs"],
      [type |-> "none",  command |-> "srv",    args |-> "strs"],
      [type |-> "stdio", command |-> "none",   args |-> "strs"],
      [type |-> "stdio", command |-> "",       args |-> "strs"] }

\* Value of config before the first iteration of main's for loop.
NoConfig == [type |-> "unset", command |-> "unset", args |-> "unset"]

\* The entry main's for loop is at (1-based): results holds one value per
\* entry already probed.
idx == Len(results) + 1

\* ---- wire data ----------------------------------------------------------
Requests == {"initialize", "tools/list", "resources/list"}
Notification == "notifications/initialized"

\* kind of the bytes of one line: JSON that is truthy in Python, JSON that is
\* falsy ({}, [], null, 0, ""), or bytes json.loads rejects.
LineKinds == {"valid", "falsy", "malformed"}

\* re: position in sent of the message the child is answering, 0 if the
\* line answers nothing; complete: the newline has been written.
Lines == [kind : LineKinds, re : 0..4, complete : BOOLEAN]

\* json.loads(line.decode('utf-8')): the parsed value, or an exception.
JsonLoads(kind) ==
    CASE kind = "valid"     -> [exc |-> FALSE, val |-> "obj"]
      [] kind = "falsy"     -> [exc |-> FALSE, val |-> "empty"]
      [] kind = "malformed" -> [exc |-> TRUE,  val |-> "None"]

\* Variant of SendResult: the handler hands back the raw line instead of None.
SendResult_RawLine(kind) ==
    IF JsonLoads(kind).exc THEN "obj" ELSE JsonLoads(kind).val

\* send_mcp_request's "if line: return json.loads(...)" under its
\* "except Exception: ... return None".
SendResult(kind) ==
    IF JsonLoads(kind).exc THEN "None" ELSE JsonLoads(kind).val

\* Python truth value of a returned response ("if response:").
Truthy(r) == r = "obj"

\* ---- Init ---------------------------------------------------------------
Init ==
    /\ platform \in {"posix", "win32"}
    /\ nservers \in 0..MaxServers
    /\ config = NoConfig
    /\ results = <<>>
    /\ exitStatus = -1
    /\ pc = IF nservers = 0 THEN "empty" ELSE "config"
    /\ child = [i \in 1..nservers |-> "none"]
    /\ returncode = -1
    /\ pipesOpen = FALSE
    /\ sent = <<>>
    /\ outbuf = <<>>
    /\ nlines = 0
    /\ response = "None"
    /\ readLog = <<>>
    /\ teardowns = 0
    /\ termReq = FALSE
    /\ killed = FALSE
    /\ aliveAtCheck = "unknown"
    /\ spawnRes = "none"
    /\ helperRuns = 0
    /\ raised = "none"
    /\ cleanupError = "none"

\* ---- helpers of the probe -----------------------------------------------
\* "return <v>" of test_mcp_server followed by main's
\* "results[name] = ..." and the next iteration of its for loop.
AfterReturn == IF idx < nservers THEN "config" ELSE "summary"

Return(v) ==
    /\ results' = Append(results, v)
    /\ pc' = AfterReturn
    /\ config' = config

\* An exception leaves test_mcp_server: main has no handler around the call,
\* so the interpreter prints the traceback and exits with status 1.
Propagate(exc) ==
    /\ raised' = exc
    /\ pc' = "crashed"
    /\ exitStatus' = 1
    /\ UNCHANGED <<config, results>>

\* Popen.poll() / the poll at the head of Popen.send_signal(): an exited
\* child is reaped and its returncode recorded.
Reaped(c) == IF c = "exited" THEN "reaped" ELSE c

\* ---- test_mcp_server: before the spawn ----------------------------------
\* config.get("type") != "stdio" of line 58 or "not command" of line 66.
IllFormed(c) == c.type # "stdio" \/ c.command \in {"none", ""}

\* Variant of ConfigCheck: the transport type is not checked.
ConfigCheck_NoTypeCheck ==
    /\ pc = "config"
    /\ config' \in Configs
    /\ returncode' = -1 /\ pipesOpen' = FALSE /\ outbuf' = <<>> /\ nlines' = 0
    /\ sent' = <<>> /\ response' = "None" /\ readLog' = <<>>
    /\ teardowns' = 0 /\ termReq' = FALSE /\ killed' = FALSE
    /\ aliveAtCheck' = "unknown" /\ spawnRes' = "none" /\ helperRuns' = 0
    /\ cleanupError' = "none"
    /\ IF config'.command \in {"none", ""}
         THEN results' = Append(results, "False") /\ pc' = AfterReturn
         ELSE results' = results /\ pc' = "expand"
    /\ UNCHANGED <<platform, nservers, exitStatus, child, raised>>

\* Lines 225-226 and 57-68: the for loop yields the next entry and
\* test_mcp_server checks its type and command; the locals of the previous
\* probe are gone.
ConfigCheck ==
    /\ pc = "config"
    /\ config' \in Configs
    /\ returncode' = -1 /\ pipesOpen' = FALSE /\ outbuf' = <<>> /\ nlines' = 0
    /\ sent' = <<>> /\ response' = "None" /\ readLog' = <<>>
    /\ teardowns' = 0 /\ termReq' = FALSE /\ killed' = FALSE
    /\ aliveAtCheck' = "unknown" /\ spawnRes' = "none" /\ helperRuns' = 0
    /\ cleanupError' = "none"
    /\ IF IllFormed(config')
         THEN results' = Append(results, "False") /\ pc' = AfterReturn
         ELSE results' = results /\ pc' = "expand"
    /\ UNCHANGED <<platform, nservers, exitStatus, child, raised>>

\* Lines 70-75: arg.startswith(...) on every arg, outside any try block.
ExpandArgs ==
    /\ pc = "expand"
    /\ IF config.args = "bad"
         THEN Propagate("AttributeError")
         ELSE /\ pc' = "cmdcheck"
              /\ UNCHANGED <<config, results, exitStatus, raised>>
    /\ UNCHANGED <<platform, nservers, childVars, sent, response, readLog,
                   teardowns, termReq, killed, aliveAtCheck, spawnRes, helperRuns,
                   cleanupError>>

\* Lines 77-88: "docker --version" is run for the command "docker"; any
\* other command is only looked up in PATH, with a warning.
CommandCheck ==
    /\ pc = "cmdcheck"
    /\ IF config.command = "docker"
         THEN /\ helperRuns' = helperRuns + 1
              /\ \E r \in {"ok", "CalledProcessError", "FileNotFoundError", "PermissionError"} :
                    CASE r = "ok" ->
                           /\ pc' = "spawn"
                           /\ UNCHANGED <<config, results, exitStatus, raised>>
                      [] r \in {"CalledProcessError", "FileNotFoundError"} ->
                           /\ Return("False")
                           /\ UNCHANGED <<exitStatus, raised>>
                      [] OTHER ->
                           Propagate(r)
         ELSE /\ pc' = "spawn"
              /\ UNCHANGED <<helperRuns, config, results, exitStatus, raised>>
    /\ UNCHANGED <<platform, nservers, childVars, sent, response, readLog,
                   teardowns, termReq, killed, aliveAtCheck, spawnRes,
                   cleanupError>>

\* Variant of Spawn: only FileNotFoundError is handled, any other OSError
\* leaves test_mcp_server.
Spawn_OnlyFileNotFound ==
    /\ pc = "spawn"
    /\ \E r \in {"ok", "FileNotFoundError", "OSError"} :
         /\ spawnRes' = r
         /\ CASE r = "ok" ->
                   /\ child' = [child EXCEPT ![idx] = "running"]
                   /\ pipesOpen' = TRUE
                   /\ pc' = "poll"
                   /\ UNCHANGED <<config, results, exitStatus, raised>>
              [] r = "FileNotFoundError" ->
                   /\ Return("False")
                   /\ UNCHANGED <<child, pipesOpen, exitStatus, raised>>
              [] OTHER ->
                   /\ Propagate(r)
                   /\ UNCHANGED <<child, pipesOpen>>
    /\ UNCHANGED <<platform, nservers, returncode, outbuf, nlines, sent,
                   response, readLog, teardowns, termReq, killed, aliveAtCheck,
                   helperRuns,
                   cleanupError>>

\* Lines 97-105 with the handlers of lines 187-194: subprocess.Popen.
Spawn ==
    /\ pc = "spawn"
    /\ \E r \in {"ok", "FileNotFoundError", "OSError"} :
         /\ spawnRes' = r
         /\ IF r = "ok"
              THEN /\ child' = [child EXCEPT ![idx] = "running"]
                   /\ pipesOpen' = TRUE
                   /\ pc' = "poll"
                   /\ UNCHANGED <<config, results>>
              ELSE /\ Return("False")
                   /\ UNCHANGED <<child, pipesOpen>>
    /\ UNCHANGED <<platform, nservers, exitStatus, returncode, outbuf, nlines, sent,
                   response, readLog, teardowns, termReq, killed, aliveAtCheck,
                   helperRuns, raised,
                   cleanupError>>

ExitCodes == {0, 1}

\* Lines 107-111: time.sleep(1), then process.poll(), which reaps a child
\* that has exited and sets process.returncode to its exit code.
Poll ==
    /\ pc = "poll"
    /\ child' = [child EXCEPT ![idx] = Reaped(@)]
    /\ IF child[idx] = "exited"
         THEN /\ aliveAtCheck' = "no"
              /\ returncode' \in ExitCodes
              /\ pc' = "communicate"
         ELSE /\ aliveAtCheck' = "yes"
              /\ returncode' = returncode
              /\ pc' = "init_write"
    /\ UNCHANGED <<mainVars, pipesOpen, outbuf, nlines, sent, response,
                   readLog, teardowns, termReq, killed, spawnRes, helperRuns, raised,
                   cleanupError>>

\* Variant of Communicate: an exit code of 0 counts as success.
Communicate_ZeroIsSuccess ==
    /\ pc = "communicate"
    /\ outbuf' = <<>>
    /\ Return(IF returncode = 0 THEN "True" ELSE "False")
    /\ UNCHANGED <<platform, nservers, exitStatus, child, returncode, pipesOpen,
                   nlines, probeVars>>

\* Lines 112-119: the immediate-exit branch.  process.communicate(timeout=2)
\* either returns or raises TimeoutExpired (handler of lines 190-194); the
\* function returns False both ways.
Communicate ==
    /\ pc = "communicate"
    /\ outbuf' = <<>>
    /\ Return("False")
    /\ UNCHANGED <<platform, nservers, exitStatus, child, returncode, pipesOpen,
                   nlines, probeVars>>

\* ---- send_mcp_request ---------------------------------------------------
\* Variant of AfterSend: the handshake goes on whatever initialize returned.
AfterSend_AlwaysNotify(method, r) ==
    CASE method = "initialize"     -> "notify"
      [] method = "tools/list"     -> "res_write"
      [] method = "resources/list" -> "terminate"

\* Variant of AfterSend: a tools/list without response skips resources/list.
AfterSend_AbortOnFailure(method, r) ==
    CASE method = "initialize"     -> IF Truthy(r) THEN "notify" ELSE "stderr"
      [] method = "tools/list"     -> IF Truthy(r) THEN "res_write" ELSE "terminate"
      [] method = "resources/list" -> "terminate"

\* Statement test_mcp_server continues at after send_mcp_request(method)
\* returned r (lines 136, 152-159, 161).
AfterSend(method, r) ==
    CASE method = "initialize"     -> IF Truthy(r) THEN "notify" ELSE "stderr"
      [] method = "tools/list"     -> "res_write"
      [] method = "resources/list" -> "terminate"

\* Variant of SendWrite without the handler of lines 47-49: a failing write
\* reaches the handler of line 190.
SendWrite_Propagate(at, method, next) ==
    /\ pc = at
    /\ IF pipesOpen
         THEN /\ sent' = Append(sent, method)
              /\ pc' = next
              /\ UNCHANGED <<response, readLog, config, results>>
         ELSE /\ response' = "None"
              /\ readLog' = Append(readLog, [method |-> method, outcome |-> "writeerr",
                                             kind |-> "none", re |-> 0, resp |-> "None"])
              /\ Return("False")
              /\ UNCHANGED sent
    /\ UNCHANGED <<platform, nservers, exitStatus, childVars, teardowns, termReq, killed,
                   aliveAtCheck, spawnRes, helperRuns, raised, cleanupError>>

\* Lines 28-31 and 47-49: the request is written and flushed; a write to a
\* pipe whose reading end is closed raises BrokenPipeError, which is caught
\* and makes the call return None without reading.
SendWrite(at, method, next) ==
    /\ pc = at
    /\ IF pipesOpen
         THEN /\ sent' = Append(sent, method)
              /\ pc' = next
              /\ UNCHANGED <<response, readLog>>
         ELSE /\ response' = "None"
              /\ readLog' = Append(readLog, [method |-> method, outcome |-> "writeerr",
                                             kind |-> "none", re |-> 0, resp |-> "None"])
              /\ pc' = AfterSend(method, "None")
              /\ UNCHANGED sent
    /\ UNCHANGED <<mainVars, childVars, teardowns, termReq, killed, aliveAtCheck,
                   spawnRes, helperRuns, raised,
                   cleanupError>>

\* Lines 33-49: select() with a 5 second timeout and readline() on posix,
\* a bare readline() on win32.  readline() returns the first line of the
\* pipe; it blocks on an unterminated line until the newline arrives or the
\* writing end is closed.
SendRead(at, method) ==
    /\ pc = at
    /\ \/ /\ outbuf # <<>>
          /\ Head(outbuf).complete \/ ~pipesOpen
          /\ outbuf' = Tail(outbuf)
          /\ response' = SendResult(Head(outbuf).kind)
          /\ readLog' = Append(readLog, [method |-> method, outcome |-> "line",
                                         kind |-> Head(outbuf).kind, re |-> Head(outbuf).re,
                                         resp |-> SendResult(Head(outbuf).kind)])
          /\ pc' = AfterSend(method, SendResult(Head(outbuf).kind))
       \/ /\ outbuf = <<>>
          /\ ~pipesOpen
          /\ response' = "None"
          /\ readLog' = Append(readLog, [method |-> method, outcome |-> "eof",
                                         kind |-> "none", re |-> 0, resp |-> "None"])
          /\ pc' = AfterSend(method, "None")
          /\ UNCHANGED outbuf
       \/ /\ outbuf = <<>>
          /\ pipesOpen
          /\ platform # "win32"
          /\ response' = "None"
          /\ readLog' = Append(readLog, [method |-> method, outcome |-> "timeout",
                                         kind |-> "none", re |-> 0, resp |-> "None"])
          /\ pc' = AfterSend(method, "None")
          /\ UNCHANGED outbuf
    /\ UNCHANGED <<mainVars, child, returncode, pipesOpen, nlines, sent, teardowns,
                   termReq, killed, aliveAtCheck, spawnRes, helperRuns, raised,
                   cleanupError>>

\* ---- test_mcp_server: the handshake -------------------------------------
\* Line 134.
InitWrite == SendWrite("init_write", "initialize", "init_read")
InitRead == SendRead("init_read", "initialize")

\* Variant of Notify: the write is not guarded, a failure reaches the
\* handler of line 190 and the probe returns False.
Notify_Unguarded ==
    /\ pc = "notify"
    /\ IF pipesOpen
         THEN /\ sent' = Append(sent, Notification)
              /\ pc' = "tools_write"
              /\ UNCHANGED <<config, results>>
         ELSE /\ Return("False")
              /\ UNCHANGED sent
    /\ UNCHANGED <<platform, nservers, exitStatus, childVars, response, readLog,
                   teardowns, termReq, killed, aliveAtCheck, spawnRes, helperRuns,
                   raised, cleanupError>>

\* Lines 139-148: the notification; a failing write is caught and logged.
Notify ==
    /\ pc = "notify"
    /\ sent' = IF pipesOpen THEN Append(sent, Notification) ELSE sent
    /\ pc' = "tools_write"
    /\ UNCHANGED <<mainVars, childVars, response, readLog, teardowns, termReq,
                   killed, aliveAtCheck, spawnRes, helperRuns, raised,
                   cleanupError>>

\* Line 152.
ToolsWrite == SendWrite("tools_write", "tools/list", "tools_read")
ToolsRead == SendRead("tools_read", "tools/list")

\* Line 157.
ResourcesWrite == SendWrite("res_write", "resources/list", "res_read")
ResourcesRead == SendRead("res_read", "resources/list")

\* Variant of StderrCheck: the no-response branch returns at once.
StderrCheck_EarlyReturn ==
    /\ pc = "stderr"
    /\ Return("True")
    /\ UNCHANGED <<platform, nservers, exitStatus, childVars, probeVars>>

\* Variant of StderrCheck: no response to initialize is a failure.
StderrCheck_Fail ==
    /\ pc = "stderr"
    /\ Return("False")
    /\ UNCHANGED <<platform, nservers, exitStatus, childVars, probeVars>>

\* Lines 161-170: no response to initialize.  On posix stderr is polled for
\* one second; if it is readable, readline() is called, which blocks on an
\* unterminated line of a running child.
StderrCheck ==
    /\ pc = "stderr"
    /\ IF platform = "win32"
         THEN pc' = "terminate"
         ELSE \E e \in {"nothing", "line", "partial"} :
                 /\ e = "partial" => child[idx] = "running"
                 /\ pc' = IF e = "partial" THEN "stderr_read" ELSE "terminate"
    /\ UNCHANGED <<mainVars, childVars, probeVars>>

\* Line 168 returning: the child wrote the newline or closed its stderr.
StderrReadline ==
    /\ pc = "stderr_read"
    /\ pc' = "terminate"
    /\ UNCHANGED <<mainVars, childVars, probeVars>>

\* ---- test_mcp_server: clean-up ------------------------------------------
\* Variant of Terminate: a failing terminate() makes the probe fail.
Terminate_FailOnError ==
    /\ pc = "terminate"
    /\ teardowns' = teardowns + 1
    /\ child' = [child EXCEPT ![idx] = Reaped(@)]
    /\ IF child[idx] = "running"
         THEN \E delivered \in BOOLEAN :
                 IF delivered
                   THEN /\ termReq' = TRUE
                        /\ pc' = "wait"
                        /\ UNCHANGED <<config, results, cleanupError>>
                   ELSE /\ cleanupError' = "PermissionError"
                        /\ Return("False")
                        /\ UNCHANGED termReq
         ELSE /\ pc' = "wait"
              /\ UNCHANGED <<termReq, config, results, cleanupError>>
    /\ UNCHANGED <<platform, nservers, exitStatus, returncode, pipesOpen, outbuf, nlines,
                   sent, response, readLog, killed, aliveAtCheck, spawnRes,
                   helperRuns, raised>>

\* Lines 172-175 and 181-182: process.terminate().  send_signal() polls
\* first and signals only a child that has not exited; os.kill may raise
\* (PermissionError for a child running under another uid), which the
\* handler of line 181 logs before line 185 returns True.
Terminate ==
    /\ pc = "terminate"
    /\ teardowns' = teardowns + 1
    /\ child' = [child EXCEPT ![idx] = Reaped(@)]
    /\ IF child[idx] = "running"
         THEN \E delivered \in BOOLEAN :
                 IF delivered
                   THEN /\ termReq' = TRUE
                        /\ pc' = "wait"
                        /\ UNCHANGED <<config, results, cleanupError>>
                   ELSE /\ cleanupError' = "PermissionError"
                        /\ Return("True")
                        /\ UNCHANGED termReq
         ELSE /\ pc' = "wait"
              /\ UNCHANGED <<termReq, config, results, cleanupError>>
    /\ UNCHANGED <<platform, nservers, exitStatus, returncode, pipesOpen, outbuf, nlines,
                   sent, response, readLog, killed, aliveAtCheck, spawnRes,
                   helperRuns, raised>>

\* Lines 176-178: process.wait(timeout=5) returns once the child has exited,
\* and raises TimeoutExpired if it is still running after 5 seconds.
Wait ==
    /\ pc = "wait"
    /\ IF child[idx] = "running"
         THEN /\ pc' = "kill"
              /\ UNCHANGED <<child, config, results>>
         ELSE /\ child' = [child EXCEPT ![idx] = "reaped"]
              /\ Return("True")
    /\ UNCHANGED <<platform, nservers, exitStatus, returncode, pipesOpen, outbuf, nlines,
                   probeVars>>

\* Variant of Kill without the final process.wait() of line 180.
Kill_NoWait ==
    /\ pc = "kill"
    /\ IF child[idx] = "running"
         THEN \E delivered \in BOOLEAN :
                 IF delivered
                   THEN /\ killed' = TRUE
                        /\ child' = [child EXCEPT ![idx] = "exited"]
                        /\ pipesOpen' = FALSE
                        /\ UNCHANGED cleanupError
                   ELSE /\ cleanupError' = "PermissionError"
                        /\ UNCHANGED <<killed, child, pipesOpen>>
         ELSE UNCHANGED <<child, killed, pipesOpen, cleanupError>>
    /\ Return("True")
    /\ UNCHANGED <<platform, nservers, exitStatus, returncode, outbuf, nlines, sent, response,
                   readLog, teardowns, termReq, aliveAtCheck, spawnRes,
                   helperRuns, raised>>

\* Lines 179-185: process.kill() and the unbounded process.wait().
Kill ==
    /\ pc = "kill"
    /\ IF child[idx] = "running"
         THEN \E delivered \in BOOLEAN :
                 IF delivered
                   THEN /\ killed' = TRUE
                        /\ child' = [child EXCEPT ![idx] = "reaped"]
                        /\ pipesOpen' = FALSE
                        /\ UNCHANGED cleanupError
                   ELSE /\ cleanupError' = "PermissionError"
                        /\ UNCHANGED <<killed, child, pipesOpen>>
         ELSE /\ child' = [child EXCEPT ![idx] = "reaped"]
              /\ UNCHANGED <<killed, pipesOpen, cleanupError>>
    /\ Return("True")
    /\ UNCHANGED <<platform, nservers, exitStatus, returncode, outbuf, nlines, sent, response,
                   readLog, teardowns, termReq, aliveAtCheck, spawnRes,
                   helperRuns, raised>>

\* ---- main ---------------------------------------------------------------
\* Lines 216-220: no server configured.
MainEmpty ==
    /\ pc = "empty"
    /\ exitStatus' = 0
    /\ pc' = "exited"
    /\ UNCHANGED <<platform, nservers, config, results, childVars, probeVars>>

\* Variant of AllPassed: any() instead of all().
AllPassed_Any(res) == \E i \in DOMAIN res : res[i] = "True"

\* all(results.values()) of line 237.
AllPassed(res) == \A i \in DOMAIN res : res[i] = "True"

\* Lines 228-238: the summary and the exit status.
MainSummary ==
    /\ pc = "summary"
    /\ exitStatus' = IF AllPassed(results) THEN 0 ELSE 1
    /\ pc' = "exited"
    /\ UNCHANGED <<platform, nservers, config, results, childVars, probeVars>>

\* ---- the child processes ------------------------------------------------
\* test_mcp_server is between its spawn and its return.
InProbe ==
    pc \in {"poll", "communicate", "init_write", "init_read", "notify",
            "tools_write", "tools_read", "res_write", "res_read", "stderr",
            "stderr_read", "terminate", "wait", "kill"}

\* test_mcp_server may still write to or read from the child's pipes.
Listening ==
    pc \in {"poll", "init_write", "init_read", "notify",
            "tools_write", "tools_read", "res_write", "res_read"}

\* A running child exits (on its own or on SIGTERM); its ends of the pipes
\* are closed.
ChildExit(j) ==
    /\ child[j] = "running"
    /\ child' = [child EXCEPT ![j] = "exited"]
    /\ pipesOpen' = IF InProbe /\ j = idx THEN FALSE ELSE pipesOpen
    /\ UNCHANGED <<mainVars, pc, returncode, outbuf, nlines, probeVars>>

\* The running child closes its stdin and stdout.
ChildClosePipes ==
    /\ Listening
    /\ child[idx] = "running"
    /\ pipesOpen
    /\ pipesOpen' = FALSE
    /\ UNCHANGED <<mainVars, pc, child, returncode, outbuf, nlines, probeVars>>

\* The running child writes a line, or the beginning of one, to its stdout.
ChildWrite(line) ==
    /\ Listening
    /\ child[idx] = "running"
    /\ pipesOpen
    /\ nlines < MaxLines
    /\ outbuf # <<>> => outbuf[Len(outbuf)].complete
    /\ line.re <= Len(sent)
    /\ line.re > 0 => sent[line.re] \in Requests
    /\ outbuf' = Append(outbuf, line)
    /\ nlines' = nlines + 1
    /\ UNCHANGED <<mainVars, pc, child, returncode, pipesOpen, probeVars>>

\* The running child writes the rest of its unterminated line.
ChildCompleteLine ==
    /\ Listening
    /\ child[idx] = "running"
    /\ pipesOpen
    /\ outbuf # <<>>
    /\ ~outbuf[Len(outbuf)].complete
    /\ outbuf' = [outbuf EXCEPT ![Len(outbuf)].complete = TRUE]
    /\ UNCHANGED <<mainVars, pc, child, returncode, pipesOpen, nlines, probeVars>>

Environment ==
    \/ \E j \in DOMAIN child : ChildExit(j)
    \/ ChildClosePipes
    \/ \E line \in Lines : ChildWrite(line)
    \/ ChildCompleteLine

Next ==
    \/ ConfigCheck \/ ExpandArgs \/ CommandCheck \/ Spawn \/ Poll \/ Communicate
    \/ InitWrite \/ InitRead \/ Notify
    \/ ToolsWrite \/ ToolsRead \/ ResourcesWrite \/ ResourcesRead
    \/ StderrCheck \/ StderrReadline
    \/ Terminate \/ Wait \/ Kill
    \/ MainEmpty \/ MainSummary
    \/ Environment

Spec == Init /\ [][Next]_vars

\* ---- properties ---------------------------------------------------------
\* test_mcp_server has returned for the entry the probe variables describe
\* and the next probe has not started.
Returned == pc \in {"config", "summary", "exited"} /\ results # <<>>

\* The entry the latest probe was for, once it has returned.
last == Len(results)

\* The value test_mcp_server returned for that entry.
verdict == results[last]

\* No line in reply to the initialize request (the first message written)
\* has been written by the child: none is in the pipe and none was read.
NoInitReply ==
    /\ \A k \in DOMAIN outbuf : outbuf[k].re # 1
    /\ \A k \in DOMAIN readLog : readLog[k].re # 1

\* One call of send_mcp_request saw nothing within the timeout, or a line
\* that is not JSON.
NoLine(e) == e.outcome = "timeout"
BadLine(e) == e.outcome = "line" /\ e.kind = "malformed"

\* C1 (as claimed): once test_mcp_server has returned for an entry, whatever
\* the verdict, the child it spawned for that entry is not running.
C1_NoChildRunningAfterReturn ==
    \A i \in 1..Len(results) : child[i] # "running"

\* C2 (as claimed): for every entry whose process was spawned, the clean-up
\* sequence has run exactly once when the probe returns, the immediate-exit
\* path included.
C2_TeardownExactlyOnce ==
    Returned /\ spawnRes = "ok" => teardowns = 1

\* C2 (amended): the clean-up sequence is never entered twice; when the probe
\* of a spawned process returns, it has been entered exactly once if the
\* process was running at the liveness check and not at all if it had already
\* exited; SIGKILL is only sent after SIGTERM.
C2_TeardownOnceIfAlive ==
    /\ teardowns <= 1
    /\ killed => termReq /\ teardowns = 1
    /\ Returned /\ spawnRes = "ok" =>
          teardowns = (IF aliveAtCheck = "yes" THEN 1 ELSE 0)

C2_Witness ==
    /\ Returned /\ spawnRes = "ok" /\ aliveAtCheck = "yes"
    /\ teardowns = 1 /\ killed /\ sent = <<"initialize">>

\* C3: a stdio entry with a command whose process was running at the liveness
\* check and never wrote a reply to initialize is reported as successful.
C3_SilentServerPasses ==
    (/\ Returned
     /\ ~IllFormed(config)
     /\ aliveAtCheck = "yes"
     /\ NoInitReply) => verdict = "True"

C3_Witness ==
    /\ Returned /\ ~IllFormed(config) /\ aliveAtCheck = "yes"
    /\ nlines = 0
    /\ Len(readLog) = 1 /\ NoLine(readLog[1])
    /\ verdict = "True"

\* C4: if the process had exited at the poll after the grace period, no
\* message is ever written to it and the entry is reported as failed, for
\* every exit code.
C4_ImmediateExitFails ==
    aliveAtCheck = "no" =>
        /\ sent = <<>>
        /\ readLog = <<>>
        /\ returncode \in ExitCodes
        /\ pc # "communicate" => Returned /\ verdict = "False"

C4_Witness ==
    Returned /\ aliveAtCheck = "no" /\ returncode = 0 /\ verdict = "False"

\* C5: test_mcp_server returns True exactly when the entry is well-formed,
\* the process was spawned and it was running at the liveness check.
C5_SuccessPredicate ==
    Returned =>
        (verdict = "True" <=>
            ~IllFormed(config) /\ spawnRes = "ok" /\ aliveAtCheck = "yes")

C5_Witness ==
    /\ Returned /\ verdict = "True"
    /\ Len(readLog) = 3 /\ readLog[2].resp = "None" /\ readLog[3].resp = "None"
    /\ teardowns = 1 /\ ~termReq

\* C6: with at least one entry, main exits with status 0 if every result is
\* True and with status 1 if some result is False.
C6_ExitStatus ==
    pc = "exited" /\ nservers > 0 =>
        /\ Len(results) = nservers
        /\ (\A i \in 1..nservers : results[i] = "True") => exitStatus = 0
        /\ (\E i \in 1..nservers : results[i] = "False") => exitStatus = 1

C6_Witness ==
    pc = "exited" /\ results = <<"False", "True">> /\ exitStatus = 1

\* C7 (as claimed): no exception leaves test_mcp_server, and main records a
\* result for every configured entry before it exits.
C7_NoExceptionEscapes ==
    /\ raised = "none"
    /\ exitStatus # -1 => Len(results) = nservers

\* C8: a call of send_mcp_request that read a line that is not JSON returns
\* None like one that read nothing within the timeout, no exception leaves
\* it, and the probe goes on the same way: after such an initialize no
\* further message is written, after such a tools/list or resources/list all
\* three requests are attempted; the clean-up runs once and the verdict is
\* True.
C8_MalformedLikeNoResponse ==
    \A k \in DOMAIN readLog :
        NoLine(readLog[k]) \/ BadLine(readLog[k]) =>
            /\ readLog[k].resp = "None"
            /\ raised = "none"
            /\ pc # "crashed"
            /\ readLog[k].method = "initialize" =>
                  /\ k = 1 /\ Len(readLog) = 1
                  /\ sent = <<"initialize">>
                  /\ pc \notin {"notify", "tools_write", "tools_read",
                                "res_write", "res_read"}
            /\ readLog[k].method = "tools/list" =>
                  /\ k = 2
                  /\ pc \notin {"tools_read", "stderr", "stderr_read"}
            /\ Returned =>
                  /\ verdict = "True"
                  /\ teardowns = 1
                  /\ Len(readLog) = (IF readLog[k].method = "initialize" THEN 1 ELSE 3)

C8_Witness ==
    /\ Returned /\ verdict = "True"
    /\ Len(readLog) = 3 /\ BadLine(readLog[2]) /\ NoLine(readLog[3])

\* C9: an entry whose type is not "stdio" or whose command is missing or
\* empty is reported as failed at once, and no process is started for it,
\* neither the server nor "docker --version".
C9_IllFormedFailsUnspawned ==
    config # NoConfig /\ IllFormed(config) =>
        /\ Returned /\ verdict = "False"
        /\ spawnRes = "none"
        /\ helperRuns = 0
        /\ child[last] = "none"

C9_Witness ==
    Returned /\ config.type = "sse" /\ config.command = "docker" /\ last = 2

\* C10: if Popen fails, the entry is reported as failed, nothing is written
\* to a child, the clean-up is not entered and there is no child.
C10_SpawnFailureFails ==
    spawnRes \in {"FileNotFoundError", "OSError"} =>
        /\ Returned /\ verdict = "False"
        /\ sent = <<>> /\ readLog = <<>>
        /\ teardowns = 0 /\ ~termReq /\ ~killed
        /\ child[last] = "none"

C10_Witness ==
    Returned /\ spawnRes = "OSError" /\ verdict = "False" /\ child[last] = "none"

\* The write of the notification failed: initialize returned a response, the
\* notification step is over and the notification is not among the messages
\* written.
NotifyFailed ==
    /\ readLog # <<>>
    /\ Truthy(readLog[1].resp)
    /\ pc # "notify"
    /\ \A k \in DOMAIN sent : sent[k] # Notification

\* C11: a failing write of the notification changes nothing else: no
\* exception leaves the probe, tools/list and then resources/list are still
\* attempted, the clean-up runs once and the verdict is True.
C11_NotifyFailureHarmless ==
    NotifyFailed =>
        /\ raised = "none" /\ pc # "crashed"
        /\ pc \notin {"stderr", "stderr_read"}
        /\ Len(readLog) >= 2 => readLog[2].method = "tools/list"
        /\ Len(readLog) >= 3 => readLog[3].method = "resources/list"
        /\ pc \in {"terminate", "wait", "kill"} => Len(readLog) = 3
        /\ Returned => /\ verdict = "True"
                       /\ teardowns = 1
                       /\ Len(readLog) = 3

C11_Witness ==
    /\ Returned /\ NotifyFailed /\ verdict = "True"
    /\ Len(readLog) = 3 /\ teardowns = 1

\* send_mcp_request has written its request and is in select()/readline().
Reading == pc \in {"init_read", "tools_read", "res_read"}

\* C12 (as claimed): a call of send_mcp_request that waits for its response
\* can always return without the child doing anything more: with a line, or
\* with None once the timeout has elapsed.
C12_SendAlwaysReturns ==
    Reading => ENABLED (InitRead \/ ToolsRead \/ ResourcesRead)

\* send_mcp_request(method) was called in this probe and has returned.
Attempted(method) == \E k \in DOMAIN readLog : readLog[k].method = method

\* C13 (as claimed): for a process that passed the liveness check,
\* tools/list and resources/list are attempted whatever the earlier sends
\* returned.
C13_LaterStepsAlwaysAttempted ==
    Returned /\ aliveAtCheck = "yes" =>
        Attempted("tools/list") /\ Attempted("resources/list")

\* C13 (amended): the notification, tools/list and resources/list are all
\* attempted only after initialize returned a truthy response; then
\* tools/list and resources/list are both attempted, whatever tools/list
\* returned; otherwise nothing follows initialize.
C13_StepsFollowInitialize ==
    /\ pc \in {"notify", "tools_write", "tools_read", "res_write", "res_read"} =>
          readLog # <<>> /\ Truthy(readLog[1].resp)
    /\ Returned /\ aliveAtCheck = "yes" =>
          /\ readLog # <<>>
          /\ readLog[1].method = "initialize"
          /\ IF Truthy(readLog[1].resp)
               THEN /\ Len(readLog) = 3
                    /\ readLog[2].method = "tools/list"
                    /\ readLog[3].method = "resources/list"
               ELSE /\ Len(readLog) = 1
                    /\ \A k \in DOMAIN sent : sent[k] = "initialize"

C13_Witness ==
    /\ Returned /\ aliveAtCheck = "yes" /\ Len(readLog) = 3
    /\ readLog[2].resp = "None" /\ readLog[2].outcome = "timeout"
    /\ readLog[3].resp = "obj"

\* The messages of the handshake in the order of lines 134-157.
HandshakeOrder ==
    <<"initialize", "notifications/initialized", "tools/list", "resources/list">>

Position(m) == CHOOSE k \in DOMAIN HandshakeOrder : HandshakeOrder[k] = m

\* seq holds messages of the handshake in ascending order, so none twice.
InHandshakeOrder(seq) ==
    \A a, b \in DOMAIN seq : a < b => Position(seq[a]) < Position(seq[b])

\* C14: the messages written to the child are in the order initialize,
\* notifications/initialized, tools/list, resources/list, each at most once;
\* the notification is written only after initialize returned a response;
\* nothing is written once the clean-up has begun.
C14_MessageOrder ==
    /\ [](/\ InHandshakeOrder(sent)
          /\ (\E k \in DOMAIN sent : sent[k] = Notification) =>
                /\ readLog # <<>>
                /\ readLog[1].method = "initialize"
                /\ readLog[1].resp # "None"
                /\ sent[1] = "initialize")
    /\ [][teardowns >= 1 /\ pc # "config" => sent' = sent]_vars

C14_Witness ==
    Returned /\ sent = HandshakeOrder /\ teardowns = 1

\* The request written as the k-th message is outstanding: its call of
\* send_mcp_request has read no line (it still waits, or it gave up after
\* the timeout) and the clean-up has not begun.
Outstanding(k) ==
    /\ sent[k] \in Requests
    /\ \A j \in DOMAIN readLog :
          readLog[j].method = sent[k] => readLog[j].outcome # "line"
    /\ teardowns = 0

\* C15 (as claimed): at most one request is outstanding at any time.
C15_AtMostOneOutstanding ==
    InProbe => Cardinality({k \in DOMAIN sent : Outstanding(k)}) <= 1

\* C16 (as claimed): at most one child spawned by the tool is running at
\* any time.
C16_AtMostOneChildRunning ==
    Cardinality({i \in DOMAIN child : child[i] = "running"}) <= 1

\* C17: during the clean-up the forced kill is issued only after the
\* termination request was delivered and the bounded wait ended with the
\* child still running; a child that has exited when the bounded wait ends is
\* never killed; and when the clean-up ends without an exception the child
\* has been reaped.
C17_KillOnlyAfterWait ==
    /\ [](pc = "kill" => termReq /\ teardowns = 1)
    /\ [](killed => termReq /\ teardowns = 1)
    /\ [][killed' /\ ~killed => pc = "kill" /\ child[idx] = "running"]_vars
    /\ [][pc = "wait" /\ child[idx] # "running" => ~killed' /\ pc' # "kill"]_vars
    /\ [](Returned /\ teardowns = 1 /\ cleanupError = "none"
             => child[last] = "reaped")

C17_Witness ==
    /\ Returned
    /\ killed
    /\ termReq
    /\ cleanupError = "none"
    /\ child[last] = "reaped"

\* C18: once the poll after the grace period has found the child running, no
\* exception leaves test_mcp_server and the call returns True, whatever the
\* child wrote or did afterwards and whatever the clean-up met.
C18_VerdictFixedAtLivenessCheck ==
    aliveAtCheck = "yes" =>
        /\ raised = "none"
        /\ pc # "crashed"
        /\ Returned => verdict = "True"

C18_Witness ==
    /\ Returned
    /\ aliveAtCheck = "yes"
    /\ Len(readLog) = 3
    /\ BadLine(readLog[2])
    /\ readLog[3].outcome = "writeerr"
    /\ cleanupError = "PermissionError"
    /\ verdict = "True"

\* C19 (as claimed): every response that send_mcp_request has returned for a
\* request is a line the child wrote in reply to that very request, never a
\* line left over from, or a late reply to, an earlier message of the probe,
\* and never a line that answers nothing.
C19_ResponseMatchesRequest ==
    \A k \in DOMAIN readLog :
        readLog[k].resp # "None" =>
            /\ readLog[k].re \in DOMAIN sent
            /\ sent[readLog[k].re] = readLog[k].method

====
